---- MODULE Spec2Model ----
(***************************************************************************)
(* Model of the Speech-to-schedule credential lifecycle (the per-route     *)
(* getCalendarClient helpers, the validate route, the OAuth callback and   *)
(* the Convex token store) and of the VoiceConsole realtime session        *)
(* controller.                                                             *)
(*                                                                         *)
(* Time is counted in minutes: 5 * 60 * 1000 ms is 5, 3600 * 1000 ms is 60. *)
(* An absent (undefined / null / empty) JavaScript value is modelled as 0  *)
(* for numbers and tokens and as "none" for names.                         *)
(***************************************************************************)
EXTENDS Integers, FiniteSets, Sequences, TLC

\* ------------------------------------------------------------------ bounds
MaxNow == 1
MaxTok == 2
MaxSessions == 2
MaxToolCalls == 1
MaxPending == 2
MaxCount == 2
MaxWords == 2

\* ------------------------------------------------------- program constants
RefreshWindow == 5
DefaultLifetime == 60

Users == {"u1", "u2"}
Reqs == {"r1", "r2"}
Routes == {"list", "create", "update", "delete", "validate"}

\* Lifetimes (minutes) the authorization server may put in expiry_date.
GrantLifetimes == {5}

\* Failures of oauth2Client.refreshAccessToken() and of a Convex mutation.
RefreshErrors == {"invalid_grant", "invalid_request", "network", "rate_limit"}
StoreErrors == {"store_unavailable", "store_rejected"}

VARIABLES
    now,            \* Date.now()
    tokenStore,     \* googleOAuthTokens table, by clerkUserId
    tokenRows,      \* number of googleOAuthTokens rows of each clerkUserId
    nextTok,        \* next token value the authorization server issues
    evicted,        \* the user's record was deleted as invalid, no exchange since
    req             \* the token requests: position, locals and outcome of each

credVars == <<now, tokenStore, tokenRows, nextTok, evicted, req>>

VARIABLES
    vc,             \* VoiceConsole: its state hooks, refs and whether it is mounted
    sessionStorage, \* sessionStorage[VOICE_SESSION_ID_KEY], 0 when removed
    conn,           \* the RealtimeSession of each connect() call
    voiceSessions,  \* voiceSessions table, by sessionId
    calls           \* pending awaits and timers of the console and its tools

voiceVars == <<vc, sessionStorage, conn, voiceSessions, calls>>

VARIABLES
    resp            \* the route handler of each request after its token helper

routeVars == <<resp>>

VARIABLES
    errs            \* the last call of an error utility: its input and result

utilVars == <<errs>>

vars == <<credVars, voiceVars, routeVars, utilVars>>

\* ------------------------------------------------------------ data shapes
NoRecord == [present |-> FALSE, accessToken |-> 0, refreshToken |-> 0,
             expiryTimestamp |-> 0]

TokenRecord(a, rt, e) == [present |-> TRUE, accessToken |-> a,
                          refreshToken |-> rt, expiryTimestamp |-> e]

NoArgs == [accessToken |-> 0, refreshToken |-> 0, expiryTimestamp |-> 0]

NoCredentials == [access_token |-> 0, refresh_token |-> 0, expiry_date |-> 0]

NoResult == [kind |-> "none", accessToken |-> 0, refreshToken |-> 0,
             error |-> "none"]

Ok(a, rt) == [kind |-> "Ok", accessToken |-> a, refreshToken |-> rt,
              error |-> "none"]

Failure(k, e) == [kind |-> k, accessToken |-> 0, refreshToken |-> 0,
                  error |-> e]

\* A request that has not entered its handler.
\*   pc, userId, route          position, authenticated user, route
\*   tokens, credentials        the helper's locals of those names
\*   upsertArgs                 arguments of its upsertUserTokens call
\*   result                     outcome of the token helper
\* and, recorded for the properties:
\*   refreshCalls               refreshAccessToken calls it made
\*   refreshOutcome             how its refresh call ended
\*   upsertFailed, deleted      its upsert was rejected; it deleted the record
\*   foundRecord                its query found a record
\*   raced                      it found a stale token while another request
\*                              of the same user was handling a stale token
\*   afterEviction              it started after the user's record was evicted
\*                              and before any new exchange
IdleRequest ==
    [pc |-> "idle", userId |-> "u1", route |-> "list", tokens |-> NoRecord,
     credentials |-> NoCredentials, upsertArgs |-> NoArgs, result |-> NoResult,
     refreshCalls |-> 0, refreshOutcome |-> "none", upsertFailed |-> FALSE,
     deleted |-> FALSE, foundRecord |-> FALSE, raced |-> FALSE, afterEviction |-> FALSE]

\* JavaScript `a || b` on values whose falsy form is 0.
OrElse(a, b) == IF a # 0 THEN a ELSE b

\* error.code of a thrown failure
ErrorCode(e) ==
    CASE e = "invalid_grant" -> 400
      [] e = "invalid_request" -> 400
      [] e = "rate_limit" -> 429
      [] e = "store_rejected" -> 400
      [] OTHER -> 0

\* error.message.includes("invalid_grant")
MessageIncludesInvalidGrant(e) == e = "invalid_grant"

\* error.response.data.error === "invalid_grant"
ResponseDataInvalidGrant(e) == e = "invalid_grant"

\* --------------------------------------------------------- the token store
\* convex/tokens.ts getUserTokens: the user's record, or null
getUserTokens(store, userId) == store[userId]

\* convex/tokens.ts upsertUserTokens: patch the existing record, else insert
upsertUserTokens(store, userId, args) ==
    IF store[userId].present
    THEN [store EXCEPT ![userId].accessToken = args.accessToken,
                       ![userId].refreshToken = args.refreshToken,
                       ![userId].expiryTimestamp = args.expiryTimestamp]
    ELSE [store EXCEPT ![userId] = TokenRecord(args.accessToken,
                                               args.refreshToken,
                                               args.expiryTimestamp)]

\* api.tokens.deleteUserTokens: remove the user's record; an absent record
\* is not an error
deleteUserTokens(store, userId) == [store EXCEPT ![userId] = NoRecord]

\* Variant: upsertUserTokens inserts without looking for an existing row.
upsertRows_AlwaysInsert(rows, store, userId) ==
    [rows EXCEPT ![userId] = @ + 1]

\* Rows of the table after upsertUserTokens: `existing` is patched in
\* place, a row is inserted only when the query found none.
upsertRows(rows, store, userId) ==
    IF store[userId].present THEN rows ELSE [rows EXCEPT ![userId] = @ + 1]

\* Rows of the table after deleteUserTokens.
deleteRows(rows, userId) == [rows EXCEPT ![userId] = 0]

\* ------------------------------------------------- getCalendarClient logic
\* Variant: a token exactly five minutes from expiry counts as stale.
NeedsRefresh_Inclusive(rec, t) == rec.expiryTimestamp - t <= RefreshWindow

\* tokens.expiryTimestamp - now < 5 * 60 * 1000
NeedsRefresh(rec, t) == rec.expiryTimestamp - t < RefreshWindow

\* The update, delete and validate routes wrap the refresh in try/catch and
\* evict on an invalid grant; the list and create routes do not.
HandlesInvalidGrant(route) == route \in {"update", "delete", "validate"}

\* error?.message?.includes("invalid_grant") || error?.code === 400 ||
\* error?.response?.data?.error === "invalid_grant"
IsInvalidGrantError(e) ==
    \/ MessageIncludesInvalidGrant(e)
    \/ ErrorCode(e) = 400
    \/ ResponseDataInvalidGrant(e)

\* The refresh response is rejected before anything is stored.
RejectsCredentials(route, creds) ==
    IF HandlesInvalidGrant(route)
    THEN creds.access_token = 0
    ELSE creds.access_token = 0 \/ creds.refresh_token = 0

\* Arguments of the upsertUserTokens call made after a refresh.
RefreshUpsertArgs(creds, stored, t) ==
    [accessToken |-> creds.access_token,
     refreshToken |-> OrElse(creds.refresh_token, stored.refreshToken),
     expiryTimestamp |-> OrElse(creds.expiry_date, t + DefaultLifetime)]

\* Credential set on the OAuth2 client after a refresh.
RefreshedCredential(creds, stored) ==
    Ok(creds.access_token, OrElse(creds.refresh_token, stored.refreshToken))

\* Credential set on the OAuth2 client when the stored token is fresh.
StoredCredential(stored) == Ok(stored.accessToken, stored.refreshToken)

\* throw new Error("TOKEN_INVALID")
TokenInvalidResult == Failure("TOKEN_INVALID", "TOKEN_INVALID")

\* Variant: a missing record is reported as an invalid token.
NotConnectedResult_AsTokenInvalid == TokenInvalidResult

\* `if (!tokens)`: the helpers throw "Google Calendar not connected",
\* validate answers {connected: false, valid: false}.
NotConnectedResult == Failure("NotConnected", "Google Calendar not connected")

\* Request r is between finding a stale token and the end of its helper.
HandlingStale(r) ==
    req[r].pc \in {"refreshing", "upserting", "deleteInTry", "deleteInCatch"}

\* Variant: one lock for all users is held while a stale token is handled.
CanQuery_GlobalLock(r) ==
    req[r].pc = "idle" /\ \A o \in Reqs : ~HandlingStale(o)

\* A request may issue its getUserTokens query: nothing is taken or awaited
\* before it.
CanQuery(r) == req[r].pc = "idle"

\* ------------------------------------------------------------------- Init
CredInit ==
    /\ now = 0
    /\ tokenStore = [u \in Users |-> NoRecord]
    /\ tokenRows = [u \in Users |-> 0]
    /\ nextTok = 1
    /\ evicted = [u \in Users |-> FALSE]
    /\ req = [r \in Reqs |-> IdleRequest]

\* The token helper of request q ends with outcome res; its locals go out of
\* scope.
Done(q, res) ==
    [q EXCEPT !.pc = "done", !.result = res, !.tokens = NoRecord,
              !.credentials = NoCredentials, !.upsertArgs = NoArgs]

\* ---------------------------------------------------------------- actions
\* The clock advances.
Tick ==
    /\ now < MaxNow
    /\ now' = now + 1
    /\ UNCHANGED <<tokenStore, tokenRows, nextTok, evicted, req>>
    /\ UNCHANGED <<voiceVars, routeVars, utilVars>>

\* A route handler is entered for an authenticated user and its token helper
\* awaits client.query(api.tokens.getUserTokens), which the store answers.
StartRequest(r, u, route) ==
    /\ CanQuery(r)
    /\ req' = [req EXCEPT ![r] =
                  [@ EXCEPT !.pc = "queried", !.userId = u, !.route = route,
                            !.tokens = getUserTokens(tokenStore, u),
                            !.foundRecord = getUserTokens(tokenStore, u).present,
                            !.afterEviction = evicted[u]]]
    /\ UNCHANGED <<now, tokenStore, tokenRows, nextTok, evicted>>
    /\ UNCHANGED <<voiceVars, routeVars, utilVars>>

\* The continuation after the query: no record, a stale token (the refresh
\* call is issued) or a fresh one (the stored credential is used).
CheckExpiry(r) ==
    /\ req[r].pc = "queried"
    /\ LET q == req[r]
           others == {o \in Reqs \ {r} :
                         req[o].userId = q.userId /\ HandlingStale(o)}
       IN IF ~q.tokens.present
          THEN req' = [req EXCEPT ![r] = Done(q, NotConnectedResult)]
          ELSE IF NeedsRefresh(q.tokens, now)
          THEN req' = [o \in Reqs |->
                         IF o = r
                         THEN [q EXCEPT !.pc = "refreshing",
                                        !.refreshCalls = @ + 1,
                                        !.raced = others # {}]
                         ELSE IF o \in others
                         THEN [req[o] EXCEPT !.raced = TRUE]
                         ELSE req[o]]
          ELSE req' = [req EXCEPT ![r] = Done(q, StoredCredential(q.tokens))]
    /\ UNCHANGED <<now, tokenStore, tokenRows, nextTok, evicted>>
    /\ UNCHANGED <<voiceVars, routeVars, utilVars>>

\* oauth2Client.refreshAccessToken() resolves with credentials that may lack
\* the access token, the refresh token or the expiry date.
RefreshSucceeds(r, hasAccess, hasRefresh, lifetime) ==
    /\ req[r].pc = "refreshing"
    /\ (hasAccess \/ hasRefresh) => nextTok <= MaxTok
    /\ LET q == req[r]
           creds == [access_token |-> IF hasAccess THEN nextTok ELSE 0,
                     refresh_token |-> IF hasRefresh THEN nextTok ELSE 0,
                     expiry_date |-> IF lifetime = 0 THEN 0 ELSE now + lifetime]
       IN /\ nextTok' = IF hasAccess \/ hasRefresh THEN nextTok + 1 ELSE nextTok
          /\ IF RejectsCredentials(q.route, creds)
             THEN IF HandlesInvalidGrant(q.route)
                  THEN \* await deleteInvalidTokens(userId) inside the try
                       req' = [req EXCEPT ![r] =
                                 [q EXCEPT !.pc = "deleteInTry",
                                           !.refreshOutcome =
                                               IF hasAccess THEN "ok"
                                               ELSE "no_access_token"]]
                  ELSE \* throw new Error("Failed to refresh token")
                       req' = [req EXCEPT ![r] =
                                 Done([q EXCEPT !.refreshOutcome =
                                               IF hasAccess THEN "ok"
                                               ELSE "no_access_token"],
                                      Failure("Error", "Failed to refresh token"))]
             ELSE req' = [req EXCEPT ![r] =
                            [q EXCEPT !.pc = "upserting",
                                      !.refreshOutcome = "ok",
                                      !.credentials = creds,
                                      !.upsertArgs =
                                          RefreshUpsertArgs(creds, q.tokens, now)]]
    /\ UNCHANGED <<now, tokenStore, tokenRows, evicted>>
    /\ UNCHANGED <<voiceVars, routeVars, utilVars>>

\* oauth2Client.refreshAccessToken() rejects with error e.
RefreshFails(r, e) ==
    /\ req[r].pc = "refreshing"
    /\ LET q == [req[r] EXCEPT !.refreshOutcome = e]
       IN IF HandlesInvalidGrant(q.route) /\ IsInvalidGrantError(e)
          THEN \* await deleteInvalidTokens(userId) inside the catch
               req' = [req EXCEPT ![r] = [q EXCEPT !.pc = "deleteInCatch"]]
          ELSE \* `throw error`, or no catch at all
               req' = [req EXCEPT ![r] = Done(q, Failure("Error", e))]
    /\ UNCHANGED <<now, tokenStore, tokenRows, nextTok, evicted>>
    /\ UNCHANGED <<voiceVars, routeVars, utilVars>>

\* The upsertUserTokens mutation commits and the helper returns the client.
UpsertReturns(r) ==
    /\ req[r].pc = "upserting"
    /\ LET q == req[r]
       IN /\ tokenStore' = upsertUserTokens(tokenStore, q.userId, q.upsertArgs)
          /\ tokenRows' = upsertRows(tokenRows, tokenStore, q.userId)
          /\ req' = [req EXCEPT ![r] =
                       Done(q, RefreshedCredential(q.credentials, q.tokens))]
    /\ UNCHANGED <<now, nextTok, evicted>>
    /\ UNCHANGED <<voiceVars, routeVars, utilVars>>

\* The upsertUserTokens mutation rejects with error e; in the routes with a
\* try/catch the rejection lands in the same catch as a refresh failure.
UpsertFails(r, e) ==
    /\ req[r].pc = "upserting"
    /\ LET q == [req[r] EXCEPT !.upsertFailed = TRUE]
       IN IF HandlesInvalidGrant(q.route) /\ IsInvalidGrantError(e)
          THEN req' = [req EXCEPT ![r] = [q EXCEPT !.pc = "deleteInCatch"]]
          ELSE req' = [req EXCEPT ![r] = Done(q, Failure("Error", e))]
    /\ UNCHANGED <<now, tokenStore, tokenRows, nextTok, evicted>>
    /\ UNCHANGED <<voiceVars, routeVars, utilVars>>

\* The deleteUserTokens mutation commits; TOKEN_INVALID is thrown.
DeleteReturns(r) ==
    /\ req[r].pc \in {"deleteInTry", "deleteInCatch"}
    /\ LET q == req[r]
       IN /\ tokenStore' = deleteUserTokens(tokenStore, q.userId)
          /\ tokenRows' = deleteRows(tokenRows, q.userId)
          /\ evicted' = [evicted EXCEPT ![q.userId] = TRUE]
          /\ req' = [req EXCEPT ![r] =
                       Done([q EXCEPT !.deleted = TRUE], TokenInvalidResult)]
    /\ UNCHANGED <<now, nextTok>>
    /\ UNCHANGED <<voiceVars, routeVars, utilVars>>

\* The deleteUserTokens mutation rejects with error e. Inside the try the
\* rejection is caught and examined like a refresh failure; inside the catch
\* it leaves the helper.
DeleteFails(r, e) ==
    /\ req[r].pc \in {"deleteInTry", "deleteInCatch"}
    /\ LET q == req[r]
       IN IF q.pc = "deleteInTry" /\ IsInvalidGrantError(e)
          THEN req' = [req EXCEPT ![r] = [q EXCEPT !.pc = "deleteInCatch"]]
          ELSE req' = [req EXCEPT ![r] = Done(q, Failure("Error", e))]
    /\ UNCHANGED <<now, tokenStore, tokenRows, nextTok, evicted>>
    /\ UNCHANGED <<voiceVars, routeVars, utilVars>>

\* Variant: the callback without the comparison of userId and state.
OAuthCallback_NoState(userId, state, hasCode, hasAccess, hasRefresh, lifetime) ==
    /\ nextTok <= MaxTok
    /\ IF hasCode /\ state # "none" /\ userId \in Users
          /\ hasAccess /\ hasRefresh
       THEN /\ tokenStore' = upsertUserTokens(tokenStore, userId,
                [accessToken |-> nextTok, refreshToken |-> nextTok,
                 expiryTimestamp |->
                     IF lifetime # 0 THEN now + lifetime
                                     ELSE now + DefaultLifetime])
            /\ tokenRows' = upsertRows(tokenRows, tokenStore, userId)
            /\ nextTok' = nextTok + 1
            /\ evicted' = [evicted EXCEPT ![userId] = FALSE]
       ELSE UNCHANGED <<tokenStore, tokenRows, nextTok, evicted>>
    /\ UNCHANGED <<now, req>>
    /\ UNCHANGED <<voiceVars, routeVars, utilVars>>

\* GET /api/google/oauth/callback: the code is exchanged and, when the state
\* matches the authenticated user and both tokens came back, stored.
OAuthCallback(userId, state, hasCode, hasAccess, hasRefresh, lifetime) ==
    /\ nextTok <= MaxTok
    /\ IF hasCode /\ state # "none" /\ userId = state
          /\ hasAccess /\ hasRefresh
       THEN /\ tokenStore' = upsertUserTokens(tokenStore, userId,
                [accessToken |-> nextTok, refreshToken |-> nextTok,
                 expiryTimestamp |->
                     IF lifetime # 0 THEN now + lifetime
                                     ELSE now + DefaultLifetime])
            /\ tokenRows' = upsertRows(tokenRows, tokenStore, userId)
            /\ nextTok' = nextTok + 1
            /\ evicted' = [evicted EXCEPT ![userId] = FALSE]
       ELSE UNCHANGED <<tokenStore, tokenRows, nextTok, evicted>>
    /\ UNCHANGED <<now, req>>
    /\ UNCHANGED <<voiceVars, routeVars, utilVars>>

\* POST /api/calendar/disconnect: the user's record is deleted.
DisconnectCalendar(userId) ==
    /\ tokenStore' = deleteUserTokens(tokenStore, userId)
    /\ tokenRows' = deleteRows(tokenRows, userId)
    /\ UNCHANGED <<now, nextTok, evicted, req>>
    /\ UNCHANGED <<voiceVars, routeVars, utilVars>>

\* ============================================================ route handlers
\* Error codes of a rejected Google Calendar call.
CallErrors == {401, 403, 500}

\* The handler has not got past its token helper.
NoResponse == [pc |-> "none", status |-> 0, needsReconnect |-> FALSE,
               callCode |-> 0, deleted |-> FALSE, logFailed |-> FALSE]

\* The outer catch of update, delete and validate tests the message for
\* "TOKEN_INVALID"; list and create have no such branch.
MapsTokenInvalid(route) == route \in {"update", "delete", "validate"}

\* The response of the handler's outer catch for an error with this message:
\* status and needsReconnect.
ErrorResponse(route, message) ==
    IF MapsTokenInvalid(route) /\ message = "TOKEN_INVALID"
    THEN [status |-> 401, needsReconnect |-> TRUE]
    ELSE [status |-> 500, needsReconnect |-> FALSE]

\* validate: error?.code === 401 || error?.code === 403 || ...
IsAuthError(code) == code \in {401, 403}

\* The handler answers.
Send(p, answer) ==
    [p EXCEPT !.pc = "sent", !.status = answer.status,
              !.needsReconnect = answer.needsReconnect]

RouteInit == resp = [r \in Reqs |-> NoResponse]

\* The token helper has returned or thrown: the handler makes its calendar
\* call, or answers from its catch (validate answers a missing record with
\* {connected: false, valid: false}).
HelperReturns(r) ==
    /\ req[r].pc = "done" /\ resp[r].pc = "none"
    /\ LET q == req[r]
       IN resp' = [resp EXCEPT ![r] =
              IF q.result.kind = "Ok"
              THEN [@ EXCEPT !.pc = "calling"]
              ELSE IF q.route = "validate" /\ q.result.kind = "NotConnected"
              THEN Send(@, [status |-> 200, needsReconnect |-> FALSE])
              ELSE Send(@, ErrorResponse(q.route, q.result.error))]
    /\ UNCHANGED <<credVars, voiceVars, utilVars>>

\* The Google Calendar call of the handler resolves (code 200) or rejects.
\* validate evicts on an authentication error; list answers at once, its log
\* entry being written without waiting; the others await logAction.
CalendarCallReturns(r, code) ==
    /\ resp[r].pc = "calling"
    /\ LET q == req[r]
           p == [resp[r] EXCEPT !.callCode = code]
       IN resp' = [resp EXCEPT ![r] =
              IF code = 200
              THEN IF q.route \in {"validate", "list"}
                   THEN Send(p, [status |-> 200, needsReconnect |-> FALSE])
                   ELSE [p EXCEPT !.pc = "logging"]
              ELSE IF q.route = "validate" /\ IsAuthError(code)
              THEN [p EXCEPT !.pc = "evicting"]
              ELSE Send(p, ErrorResponse(q.route, "provider error"))]
    /\ UNCHANGED <<credVars, voiceVars, utilVars>>

\* validate: await handleInvalidToken(userId) after a rejected test call.
HandleInvalidTokenReturns(r, ok) ==
    /\ resp[r].pc = "evicting"
    /\ IF ok
       THEN /\ tokenStore' = deleteUserTokens(tokenStore, req[r].userId)
            /\ tokenRows' = deleteRows(tokenRows, req[r].userId)
            /\ evicted' = [evicted EXCEPT ![req[r].userId] = TRUE]
            /\ resp' = [resp EXCEPT ![r] =
                   Send([@ EXCEPT !.deleted = TRUE],
                        ErrorResponse(req[r].route, "TOKEN_INVALID"))]
       ELSE /\ resp' = [resp EXCEPT ![r] =
                   Send(@, ErrorResponse(req[r].route, "store error"))]
            /\ UNCHANGED <<tokenStore, tokenRows, evicted>>
    /\ UNCHANGED <<now, nextTok, req>>
    /\ UNCHANGED <<voiceVars, utilVars>>

\* create, update, delete: await client.mutation(api.tokens.logAction)
\* resolves or rejects inside the handler's try.
LogActionReturns(r, ok) ==
    /\ resp[r].pc = "logging"
    /\ resp' = [resp EXCEPT ![r] =
           IF ok THEN Send(@, [status |-> 200, needsReconnect |-> FALSE])
           ELSE Send([@ EXCEPT !.logFailed = TRUE],
                     ErrorResponse(req[r].route, "log error"))]
    /\ UNCHANGED <<credVars, voiceVars, utilVars>>

\* ============================================================ VoiceConsole
\* connect() calls are numbered; call k creates voice session k and
\* RealtimeSession k.
SessionIds == 1..MaxSessions

\* page.tsx renders the console with isGoogleCalendarConnected = !!tokens; the
\* console is modelled for a user whose calendar is connected.
isGoogleCalendarConnected == TRUE

\* Messages carried by a RealtimeSession "error" event.
SessionErrors == {"WebRTC data channel is not connected", "network failure"}

\* lowerMessage.includes("data channel is not connected") || ... in
\* session.on("error")
IsExpectedCloseError(m) == m = "WebRTC data channel is not connected"

\* A message text is the sequence of its words; includes() is decided on
\* whole words, so a term is found where its words stand next to each other.
\* The messages of the connect steps ("token", "session", "agent", "connect")
\* stand for texts that hold none of the terms looked for.
MessageText(m) ==
    CASE m = "WebRTC data channel is not connected"
            -> <<"WebRTC", "data", "channel", "is", "not", "connected">>
      [] m = "network failure" -> <<"network", "failure">>
      [] OTHER -> <<m>>

\* String.prototype.toLowerCase on the words that carry capitals
LowerWord(w) ==
    CASE w = "WebRTC" -> "webrtc"
      [] w = "API" -> "api"
      [] w = "Microphone" -> "microphone"
      [] w = "Timeout" -> "timeout"
      [] w = "Unknown" -> "unknown"
      [] w = "Error" -> "error"
      [] w = "[object" -> "[object"
      [] w = "Object]" -> "object]"
      [] OTHER -> w

toLowerCase(text) == [i \in 1..Len(text) |-> LowerWord(text[i])]

\* String.prototype.includes
includes(text, term) ==
    \E i \in 0..(Len(text) - Len(term)) :
        SubSeq(text, i + 1, i + Len(term)) = term

\* The terms of the three tests of classifyErrorType
ApiKeyTerms ==
    {<<"api", "key">>, <<"authentication">>, <<"unauthorized">>,
     <<"invalid", "api", "key">>, <<"ephemeral", "token">>}
MicrophoneTerms ==
    {<<"microphone">>, <<"audio">>, <<"permission", "denied">>,
     <<"getusermedia">>}
NetworkTerms ==
    {<<"network">>, <<"webrtc">>, <<"connection">>, <<"timeout">>,
     <<"fetch">>}

\* classifyErrorType of error-utils.ts; source is "none" when the caller
\* passes no source.
classifyErrorType_NetworkFirst(errorMessage, source) ==
    LET lowerMessage == toLowerCase(errorMessage)
    IN  IF \E t \in NetworkTerms : includes(lowerMessage, t)
        THEN "network"
        ELSE IF (\E t \in ApiKeyTerms : includes(lowerMessage, t))
                \/ source = "getEphemeralToken"
        THEN "api_key"
        ELSE IF \E t \in MicrophoneTerms : includes(lowerMessage, t)
        THEN "microphone"
        ELSE "unknown"

classifyErrorType(errorMessage, source) ==
    LET lowerMessage == toLowerCase(errorMessage)
    IN  IF (\E t \in ApiKeyTerms : includes(lowerMessage, t))
           \/ source = "getEphemeralToken"
        THEN "api_key"
        ELSE IF \E t \in MicrophoneTerms : includes(lowerMessage, t)
        THEN "microphone"
        ELSE IF \E t \in NetworkTerms : includes(lowerMessage, t)
        THEN "network"
        ELSE "unknown"

\* The values a catch clause hands to normalizeErrorMessage: undefined, null,
\* a string, a number, an Error and a plain object with the fields message,
\* error and code, each of which is absent when it is undefined.
Undefined == [t |-> "undefined"]
Null == [t |-> "null"]
StringValue(text) == [t |-> "string", text |-> text]
NumberValue(n) == [t |-> "number", n |-> n]
ErrorObject(message) == [t |-> "Error", message |-> message]
PlainObject(message, error, code) ==
    [t |-> "object", message |-> message, error |-> error, code |-> code]

\* ToBoolean, as applied by !err, err.message && ..., err.error && ...
truthy(v) ==
    CASE v.t \in {"undefined", "null"} -> FALSE
      [] v.t = "string" -> v.text # <<>>
      [] v.t = "number" -> v.n # 0
      [] OTHER -> TRUE

\* String(v)
String(v) ==
    CASE v.t = "undefined" -> <<"undefined">>
      [] v.t = "null" -> <<"null">>
      [] v.t = "string" -> v.text
      [] v.t = "number" -> IF v.n = 0 THEN <<"0">> ELSE <<"42">>
      [] v.t = "Error" -> IF v.message = <<>> THEN <<"Error">>
                          ELSE <<"Error:">> \o v.message
      [] OTHER -> <<"[object", "Object]">>

\* JSON.stringify: an undefined member is left out, the others are written
\* in the order message, error, code.
RECURSIVE JSONStringify(_)
JSONStringify(v) ==
    LET member(name, x) ==
            IF x.t = "undefined" THEN <<>>
            ELSE <<name, ":">> \o JSONStringify(x)
        join(a, c) ==
            IF a = <<>> THEN c ELSE IF c = <<>> THEN a ELSE a \o <<",">> \o c
    IN  CASE v.t = "string" -> <<"\"">> \o v.text \o <<"\"">>
          [] v.t = "object"
                -> <<"{">>
                    \o join(join(member("message", v.message),
                                 member("error", v.error)),
                            member("code", v.code))
                    \o <<"}">>
          [] OTHER -> String(v)

\* normalizeErrorMessage of error-utils.ts
normalizeErrorMessage(err) ==
    IF ~truthy(err) THEN <<"Unknown", "error">>
    ELSE IF err.t = "string" THEN err.text
    ELSE IF err.t = "Error"
    THEN IF err.message # <<>> THEN err.message ELSE <<"Error", "occurred">>
    ELSE IF err.t = "object"
    THEN IF truthy(err.message)
         THEN IF err.message.t = "string" THEN err.message.text
              ELSE String(err.message)
         ELSE IF truthy(err.error) /\ err.error.t = "string"
         THEN err.error.text
         ELSE IF /\ truthy(err.error)
                 /\ err.error.t = "object"
                 /\ truthy(err.error.message)
         THEN IF err.error.message.t = "string" THEN err.error.message.text
              ELSE String(err.error.message)
         ELSE IF JSONStringify(err) # <<"{", "}">> THEN JSONStringify(err)
         ELSE String(err)
    ELSE String(err)

\* The words of the message texts, and the texts of at most MaxWords words
MessageWords ==
    {"api", "key", "invalid", "microphone", "Microphone", "network",
     "Timeout", "permission", "denied", "hello"}
Texts == UNION {[1..n -> MessageWords] : n \in 0..MaxWords}

\* The values of a message field, of an error field and of a code field
MessageFields ==
    {Undefined, StringValue(<<>>), StringValue(<<"permission", "denied">>),
     NumberValue(0), NumberValue(42)}
ErrorFields ==
    MessageFields
        \cup {PlainObject(m, Undefined, Undefined) : m \in MessageFields}
CodeFields == {Undefined, NumberValue(42)}

\* The values thrown at a catch clause
ErrValues ==
    {Undefined, Null}
        \cup {StringValue(text) : text \in Texts}
        \cup {ErrorObject(text) : text \in Texts}
        \cup {PlainObject(m, e, c) :
                m \in MessageFields, e \in ErrorFields, c \in CodeFields}

\* The source argument of classifyErrorType, "none" when it is left out
Sources == {"none", "getEphemeralToken"}

NoErr ==
    [pc |-> "idle", err |-> Undefined, source |-> "none",
     errorMessage |-> <<>>, errorType |-> "none"]

UtilInit == errs = NoErr

\* catch (err) of a step whose handler classifies with the given source
Catch(e, source) ==
    /\ errs.pc = "idle"
    /\ errs' = [errs EXCEPT !.pc = "caught", !.err = e, !.source = source]
    /\ UNCHANGED <<credVars, voiceVars, routeVars>>

\* const errorMessage = normalizeErrorMessage(err)
NormalizeReturns ==
    /\ errs.pc = "caught"
    /\ errs' = [errs EXCEPT !.pc = "normalized",
                            !.errorMessage = normalizeErrorMessage(errs.err)]
    /\ UNCHANGED <<credVars, voiceVars, routeVars>>

\* const errorType = classifyErrorType(errorMessage, source)
ClassifyReturns ==
    /\ errs.pc = "normalized"
    /\ errs' = [errs EXCEPT !.pc = "classified",
                            !.errorType = classifyErrorType(errs.errorMessage,
                                                            errs.source)]
    /\ UNCHANGED <<credVars, voiceVars, routeVars>>

\* The errorType a failing connect step sets: micCheck.type for the microphone
\* check, classifyErrorType with the token source for the token step, and
\* classifyErrorType of the message otherwise.
ConnectErrorType(msg) ==
    IF msg = "microphone" THEN "microphone"
    ELSE classifyErrorType(MessageText(msg),
                           IF msg = "token" THEN "getEphemeralToken"
                           ELSE "none")

NoVoiceSession == [present |-> FALSE, endedWrites |-> 0, toolCallsCount |-> 0]

\* createVoiceSession: insert {startedAt, toolCallsCount: 0}
createVoiceSession(table, id) ==
    [table EXCEPT ![id] = [present |-> TRUE, endedWrites |-> 0,
                           toolCallsCount |-> 0]]

\* updateVoiceSession with endedAt (toolCallsCount optional, -1 when omitted);
\* a missing session throws "Voice session not found" and patches nothing.
endVoiceSession(table, id, count) ==
    IF id = 0 \/ ~table[id].present THEN table
    ELSE [table EXCEPT ![id].endedWrites = @ + 1,
                       ![id].toolCallsCount = IF count < 0 THEN @ ELSE count]

\* updateVoiceSession with toolCallsCount only
countVoiceSession(table, id, count) ==
    IF id = 0 \/ ~table[id].present THEN table
    ELSE [table EXCEPT ![id].toolCallsCount = count]

\* connect() call k has started and not returned.
ConnectInProgress(k) == calls.connectPc[k] \notin {"none", "done"}

VoiceInit ==
    /\ vc = [status |-> "idle", error |-> "none", errorType |-> "none",
             sessionRef |-> 0,
             sessionIdRef |-> 0, toolCallsCountRef |-> 0,
             chimePlayedRef |-> FALSE, isDisconnectingRef |-> FALSE,
             mounted |-> TRUE]
    /\ sessionStorage = 0
    /\ conn = [k \in SessionIds |-> "none"]
    /\ voiceSessions = [k \in SessionIds |-> NoVoiceSession]
    /\ calls = [connectPc |-> [k \in SessionIds |-> "none"],
                connectionErrorOccurred |-> [k \in SessionIds |-> FALSE],
                closing |-> [k \in SessionIds |-> 0],
                graceTimers |-> 0, endTool |-> 0, toolRuns |-> 0,
                bridgeTimers |-> 0, nextSession |-> 1,
                interrupted |-> [k \in SessionIds |-> FALSE],
                idleNoop |-> FALSE, updates |-> {}, rejected |-> FALSE]

\* Variant: the error branches of the microphone check and of the token
\* request without their return statement.
ConnectError_NoReturn(k, msg) ==
    /\ vc' = [vc EXCEPT !.status = "error", !.error = msg,
                        !.errorType = ConnectErrorType(msg)]
    /\ calls' = [calls EXCEPT !.connectPc[k] =
                    IF @ = "mic" THEN "token"
                    ELSE IF @ = "token" THEN "create" ELSE "done"]

\* connect() ends at one of its `setError(...); setStatus("error"); return`.
ConnectError(k, msg) ==
    /\ vc' = [vc EXCEPT !.status = "error", !.error = msg,
                        !.errorType = ConnectErrorType(msg)]
    /\ calls' = [calls EXCEPT !.connectPc[k] = "done"]

\* "Start Voice Session" is clicked: connect() sets status connecting, clears
\* the error and awaits checkMicrophoneAccess().
ConnectStart ==
    /\ vc.mounted /\ isGoogleCalendarConnected
    /\ vc.status \in {"idle", "error"}
    /\ calls.nextSession <= MaxSessions
    /\ vc' = [vc EXCEPT !.status = "connecting", !.error = "none",
                        !.errorType = "none"]
    /\ calls' = [calls EXCEPT !.connectPc[calls.nextSession] = "mic",
                              !.nextSession = @ + 1]
    /\ UNCHANGED <<sessionStorage, conn, voiceSessions>>
    /\ UNCHANGED <<credVars, routeVars, utilVars>>

\* checkMicrophoneAccess() returns; on success getEphemeralToken() is awaited.
MicCheckReturns(k, ok) ==
    /\ calls.connectPc[k] = "mic"
    /\ IF ok
       THEN /\ calls' = [calls EXCEPT !.connectPc[k] = "token"]
            /\ UNCHANGED vc
       ELSE ConnectError(k, "microphone")
    /\ UNCHANGED <<sessionStorage, conn, voiceSessions>>
    /\ UNCHANGED <<credVars, routeVars, utilVars>>

\* getEphemeralToken() returns; on success createVoiceSession() is awaited.
TokenReturns(k, ok) ==
    /\ calls.connectPc[k] = "token"
    /\ IF ok
       THEN /\ calls' = [calls EXCEPT !.connectPc[k] = "create"]
            /\ UNCHANGED vc
       ELSE ConnectError(k, "token")
    /\ UNCHANGED <<sessionStorage, conn, voiceSessions>>
    /\ UNCHANGED <<credVars, routeVars, utilVars>>

\* createVoiceSession() returns. On success the refs and sessionStorage are
\* set, the agent and the RealtimeSession are constructed, the listeners are
\* registered and session.connect() is awaited.
CreateSessionReturns(k, ok, agentOk) ==
    /\ calls.connectPc[k] = "create"
    /\ IF ~ok
       THEN /\ ConnectError(k, "session")
            /\ UNCHANGED <<sessionStorage, conn, voiceSessions>>
       ELSE /\ voiceSessions' = createVoiceSession(voiceSessions, k)
            /\ sessionStorage' = k
            /\ IF agentOk
               THEN /\ vc' = [vc EXCEPT !.sessionIdRef = k,
                                        !.toolCallsCountRef = 0,
                                        !.chimePlayedRef = FALSE,
                                        !.isDisconnectingRef = FALSE]
                    /\ conn' = [conn EXCEPT ![k] = "connecting"]
                    /\ calls' = [calls EXCEPT !.connectPc[k] = "connecting"]
               ELSE /\ vc' = [vc EXCEPT !.sessionIdRef = k,
                                        !.toolCallsCountRef = 0,
                                        !.chimePlayedRef = FALSE,
                                        !.isDisconnectingRef = FALSE,
                                        !.status = "error", !.error = "agent",
                                        !.errorType = ConnectErrorType("agent")]
                    /\ calls' = [calls EXCEPT !.connectPc[k] = "done"]
                    /\ UNCHANGED conn
    /\ UNCHANGED <<credVars, routeVars, utilVars>>

\* Variant: the connected listener setting the status without looking at
\* the current one.
OnConnected_Unconditional(k) ==
    /\ conn[k] \in {"connecting", "open"}
    /\ vc' = [vc EXCEPT !.status = "connected",
                        !.error = "none", !.errorType = "none",
                        !.chimePlayedRef = TRUE]
    /\ UNCHANGED <<sessionStorage, conn, voiceSessions, calls>>
    /\ UNCHANGED <<credVars, routeVars, utilVars>>

\* session.on("connected")
OnConnected(k) ==
    /\ conn[k] \in {"connecting", "open"}
    /\ vc' = [vc EXCEPT !.status = IF @ = "connecting" THEN "connected" ELSE @,
                        !.error = "none", !.errorType = "none",
                        !.chimePlayedRef = TRUE]
    /\ UNCHANGED <<sessionStorage, conn, voiceSessions, calls>>
    /\ UNCHANGED <<credVars, routeVars, utilVars>>

\* Variant: the error listener suppressing the data-channel errors without
\* looking at isDisconnectingRef.
OnError_SuppressUnflagged(k, msg) ==
    /\ conn[k] # "none"
    /\ calls' = [calls EXCEPT !.connectionErrorOccurred[k] = TRUE]
    /\ IF IsExpectedCloseError(msg)
       THEN UNCHANGED vc
       ELSE vc' = [vc EXCEPT !.status = "error", !.error = msg,
                             !.errorType = classifyErrorType(MessageText(msg), "none")]
    /\ UNCHANGED <<sessionStorage, conn, voiceSessions>>
    /\ UNCHANGED <<credVars, routeVars, utilVars>>

\* session.on("error"), also for an error that arrives after the close
OnError(k, msg) ==
    /\ conn[k] # "none"
    /\ calls' = [calls EXCEPT !.connectionErrorOccurred[k] = TRUE]
    /\ IF vc.isDisconnectingRef /\ IsExpectedCloseError(msg)
       THEN UNCHANGED vc
       ELSE vc' = [vc EXCEPT !.status = "error", !.error = msg,
                             !.errorType = classifyErrorType(MessageText(msg), "none")]
    /\ UNCHANGED <<sessionStorage, conn, voiceSessions>>
    /\ UNCHANGED <<credVars, routeVars, utilVars>>

\* session.on("history_updated") with n function_call items. The count
\* update is not awaited: with sent it is still on its way to the store when
\* the handler returns, otherwise it has been applied by then.
OnHistoryUpdated(k, n, sent) ==
    /\ conn[k] = "open"
    /\ IF n > vc.toolCallsCountRef
       THEN /\ vc' = [vc EXCEPT !.toolCallsCountRef = n]
            /\ IF sent /\ vc.sessionIdRef # 0
               THEN /\ Cardinality(calls.updates) < MaxPending
                    /\ calls' = [calls EXCEPT !.updates = @ \cup
                                     {[sessionId |-> vc.sessionIdRef,
                                       toolCallsCount |-> n]}]
                    /\ UNCHANGED voiceSessions
               ELSE /\ voiceSessions' =
                           countVoiceSession(voiceSessions, vc.sessionIdRef, n)
                    /\ UNCHANGED calls
       ELSE UNCHANGED <<vc, voiceSessions, calls>>
    /\ UNCHANGED <<sessionStorage, conn>>
    /\ UNCHANGED <<credVars, routeVars, utilVars>>

\* A count update that was on its way reaches the store: updateVoiceSession
\* patches toolCallsCount with the value it carries.
UpdateArrives(w) ==
    /\ w \in calls.updates
    /\ voiceSessions' = countVoiceSession(voiceSessions, w.sessionId,
                                          w.toolCallsCount)
    /\ calls' = [calls EXCEPT !.updates = @ \ {w}]
    /\ UNCHANGED <<vc, sessionStorage, conn>>
    /\ UNCHANGED <<credVars, routeVars, utilVars>>

\* Variant: session.connect() resolving without the fallback chime.
ConnectResolves_NoFallbackChime(k) ==
    /\ calls.connectPc[k] = "connecting"
    /\ conn' = [conn EXCEPT ![k] = "open"]
    /\ LET newStatus == IF vc.status = "connecting" THEN "connected"
                        ELSE vc.status
       IN /\ vc' = [vc EXCEPT
                       !.status = IF calls.connectionErrorOccurred[k]
                                  THEN @ ELSE newStatus,
                       !.sessionRef = k]
          /\ calls' = [calls EXCEPT !.connectPc[k] = "done"]
    /\ UNCHANGED <<sessionStorage, voiceSessions>>
    /\ UNCHANGED <<credVars, routeVars, utilVars>>

\* await session.connect() resolves: the fallback status update, then
\* sessionRef.current = session.
ConnectResolves(k) ==
    /\ calls.connectPc[k] = "connecting"
    /\ conn' = [conn EXCEPT ![k] = "open"]
    /\ LET newStatus == IF vc.status = "connecting" THEN "connected"
                        ELSE vc.status
           \* playReadyChime() is called
           chime == /\ ~calls.connectionErrorOccurred[k]
                    /\ newStatus = "connected" /\ ~vc.chimePlayedRef
       IN /\ vc' = [vc EXCEPT
                       !.status = IF calls.connectionErrorOccurred[k]
                                  THEN @ ELSE newStatus,
                       !.chimePlayedRef = @ \/ chime,
                       !.sessionRef = k]
          /\ calls' = [calls EXCEPT !.connectPc[k] = "done"]
    /\ UNCHANGED <<sessionStorage, voiceSessions>>
    /\ UNCHANGED <<credVars, routeVars, utilVars>>

\* await session.connect() rejects: the error is shown and the session that
\* sessionIdRef names is marked ended.
ConnectRejects(k) ==
    /\ calls.connectPc[k] = "connecting"
    /\ conn' = [conn EXCEPT ![k] = "closed"]
    /\ vc' = [vc EXCEPT !.status = "error", !.error = "connect",
                        !.errorType = ConnectErrorType("connect")]
    /\ calls' = [calls EXCEPT !.connectPc[k] = "done",
                              !.connectionErrorOccurred[k] = TRUE]
    /\ voiceSessions' = endVoiceSession(voiceSessions, vc.sessionIdRef,
                                        vc.toolCallsCountRef)
    /\ UNCHANGED sessionStorage
    /\ UNCHANGED <<credVars, routeVars, utilVars>>

\* Variant: disconnect() raising the flag and arming the grace timer before
\* it looks at the session handle.
DisconnectCalled_Unguarded(c) ==
    IF vc.sessionRef = 0
    THEN /\ c.graceTimers < MaxPending
         /\ vc' = [vc EXCEPT !.isDisconnectingRef = TRUE]
         /\ calls' = [c EXCEPT !.graceTimers = @ + 1,
                               !.idleNoop = @ \/ vc.status = "idle"]
    ELSE /\ c.closing[vc.sessionRef] < MaxPending
         /\ vc' = [vc EXCEPT !.isDisconnectingRef = TRUE]
         /\ calls' = [c EXCEPT !.closing[vc.sessionRef] = @ + 1]

\* disconnect() up to its first await, c being the pending calls when it is
\* entered. With no session handle the whole body is skipped; otherwise the
\* flag is raised and the close call is awaited. (interrupted and idleNoop
\* record that a call found no handle during a connect(), or while idle.)
DisconnectCalled(c) ==
    IF vc.sessionRef = 0
    THEN /\ calls' = [c EXCEPT !.interrupted =
                         [k \in SessionIds |->
                             @[k] \/ (ConnectInProgress(k)
                                         /\ vc.status = "connecting")],
                               !.idleNoop = @ \/ vc.status = "idle"]
         /\ UNCHANGED vc
    ELSE /\ c.closing[vc.sessionRef] < MaxPending
         /\ vc' = [vc EXCEPT !.isDisconnectingRef = TRUE]
         /\ calls' = [c EXCEPT !.closing[vc.sessionRef] = @ + 1]

\* "Stop Voice Session" is clicked.
StopButton ==
    /\ vc.mounted /\ vc.status = "connected"
    /\ DisconnectCalled(calls)
    /\ UNCHANGED <<sessionStorage, conn, voiceSessions>>
    /\ UNCHANGED <<credVars, routeVars, utilVars>>

\* Variant: the close call made outside the try statement.
CloseFailureEscapes_NoTry(ok) == ~ok

\* try { await close } catch (e) { console.warn(...) }: a close call that
\* throws or rejects does not leave the try statement.
CloseFailureEscapes(ok) == FALSE

\* updateVoiceSession(...).catch(...), not awaited: a rejected update does not
\* reach disconnect().
UpdateFailureEscapes(updateOk) == FALSE

\* Variant: the tail of disconnect() without
\* sessionStorage.removeItem(VOICE_SESSION_ID_KEY).
CloseReturnsWith_KeepsSlot(k, ok, updateOk) ==
    /\ calls.closing[k] > 0
    /\ calls.graceTimers < MaxPending
    /\ conn' = [conn EXCEPT ![k] = IF ok THEN "closed" ELSE @]
    /\ voiceSessions' =
           IF updateOk
           THEN endVoiceSession(voiceSessions, vc.sessionIdRef,
                                vc.toolCallsCountRef)
           ELSE voiceSessions
    /\ vc' = [vc EXCEPT !.sessionRef = 0, !.sessionIdRef = 0,
                        !.status = "idle", !.error = "none",
                        !.errorType = "none",
                        !.toolCallsCountRef = 0,
                        !.chimePlayedRef = FALSE]
    /\ calls' = [calls EXCEPT !.closing[k] = @ - 1,
                              !.graceTimers = @ + 1]
    /\ UNCHANGED sessionStorage
    /\ UNCHANGED <<credVars, routeVars, utilVars>>

\* The awaited close call of a disconnect() for session k settles and the rest
\* of disconnect() runs. ok is false when the close call threw or rejected, or
\* when the handle offers none of disconnect, close and transport.disconnect;
\* updateOk is false when the update of the session record is rejected.
CloseReturnsWith(k, ok, updateOk) ==
    /\ calls.closing[k] > 0
    /\ calls.graceTimers < MaxPending
    /\ IF CloseFailureEscapes(ok) \/ UpdateFailureEscapes(updateOk)
       THEN /\ calls' = [calls EXCEPT !.closing[k] = @ - 1,
                                      !.rejected = TRUE]
            /\ UNCHANGED <<vc, sessionStorage, conn, voiceSessions>>
       ELSE /\ conn' = [conn EXCEPT ![k] = IF ok THEN "closed" ELSE @]
            /\ voiceSessions' =
                   IF updateOk
                   THEN endVoiceSession(voiceSessions, vc.sessionIdRef,
                                        vc.toolCallsCountRef)
                   ELSE voiceSessions
            /\ sessionStorage' = 0
            /\ vc' = [vc EXCEPT !.sessionRef = 0, !.sessionIdRef = 0,
                                !.status = "idle", !.error = "none",
                                !.errorType = "none",
                                !.toolCallsCountRef = 0,
                                !.chimePlayedRef = FALSE]
            /\ calls' = [calls EXCEPT !.closing[k] = @ - 1,
                                      !.graceTimers = @ + 1]
    /\ UNCHANGED <<credVars, routeVars, utilVars>>

\* The same with an update of the session record that succeeds.
CloseReturns(k, ok) == CloseReturnsWith(k, ok, TRUE)

\* The 1000 ms timer of a disconnect() fires.
GraceTimerFires ==
    /\ calls.graceTimers > 0
    /\ vc' = [vc EXCEPT !.isDisconnectingRef = FALSE]
    /\ calls' = [calls EXCEPT !.graceTimers = @ - 1]
    /\ UNCHANGED <<sessionStorage, conn, voiceSessions>>
    /\ UNCHANGED <<credVars, routeVars, utilVars>>

\* The agent runs end_voice_session: with a session id in sessionStorage it
\* posts to /api/voice/session/stop, otherwise it returns an error.
EndToolStart ==
    /\ \E k \in SessionIds : conn[k] = "open"
    /\ calls.endTool = 0
    /\ calls.toolRuns < MaxToolCalls
    /\ calls' = [calls EXCEPT !.toolRuns = @ + 1, !.endTool = sessionStorage]
    /\ UNCHANGED <<vc, sessionStorage, conn, voiceSessions>>
    /\ UNCHANGED <<credVars, routeVars, utilVars>>

\* Variant: the tool arming its timer without testing response.ok.
EndToolStopReturns_SignalsOnFailure(ok) ==
    /\ calls.endTool # 0
    /\ calls.bridgeTimers < MaxPending
    /\ calls' = [calls EXCEPT !.endTool = 0, !.bridgeTimers = @ + 1]
    /\ voiceSessions' =
           IF ok /\ voiceSessions[calls.endTool].present
           THEN endVoiceSession(voiceSessions, calls.endTool, -1)
           ELSE voiceSessions
    /\ UNCHANGED <<vc, sessionStorage, conn>>
    /\ UNCHANGED <<credVars, routeVars, utilVars>>

\* POST /api/voice/session/stop answers. On success the session is marked
\* ended and the tool arms the 400 ms timer that dispatches
\* VOICE_SESSION_END_EVENT.
EndToolStopReturns(ok) ==
    /\ calls.endTool # 0
    /\ calls.bridgeTimers < MaxPending
    /\ IF ok /\ voiceSessions[calls.endTool].present
       THEN /\ voiceSessions' = endVoiceSession(voiceSessions, calls.endTool, -1)
            /\ calls' = [calls EXCEPT !.endTool = 0, !.bridgeTimers = @ + 1]
       ELSE /\ calls' = [calls EXCEPT !.endTool = 0]
            /\ UNCHANGED voiceSessions
    /\ UNCHANGED <<vc, sessionStorage, conn>>
    /\ UNCHANGED <<credVars, routeVars, utilVars>>

\* Variant: the 400 ms timer dispatching an event that nothing listens to.
BridgeTimerFires_NoListener ==
    /\ calls.bridgeTimers > 0
    /\ calls' = [calls EXCEPT !.bridgeTimers = @ - 1]
    /\ UNCHANGED <<vc, sessionStorage, conn, voiceSessions>>
    /\ UNCHANGED <<credVars, routeVars, utilVars>>

\* The 400 ms timer fires: VOICE_SESSION_END_EVENT is dispatched and, while
\* the console is mounted, handleSessionEnd calls disconnect().
BridgeTimerFires ==
    /\ calls.bridgeTimers > 0
    /\ LET c == [calls EXCEPT !.bridgeTimers = @ - 1]
       IN IF vc.mounted
          THEN DisconnectCalled(c)
          ELSE calls' = c /\ UNCHANGED vc
    /\ UNCHANGED <<sessionStorage, conn, voiceSessions>>
    /\ UNCHANGED <<credVars, routeVars, utilVars>>

\* The console unmounts: with a session handle the close call is issued
\* without awaiting it and the session is marked ended; refs and storage are
\* left as they are.
Unmount(ok) ==
    /\ vc.mounted
    /\ vc' = [vc EXCEPT !.mounted = FALSE]
    /\ IF vc.sessionRef # 0
       THEN /\ conn' = [conn EXCEPT ![vc.sessionRef] = IF ok THEN "closed" ELSE @]
            /\ voiceSessions' = endVoiceSession(voiceSessions, vc.sessionIdRef,
                                                vc.toolCallsCountRef)
       ELSE UNCHANGED <<conn, voiceSessions>>
    /\ UNCHANGED <<sessionStorage, calls>>
    /\ UNCHANGED <<credVars, routeVars, utilVars>>

\* What reaches the OAuth callback of user u1: a completed exchange with or
\* without an expiry date, and a request with the code missing, the state
\* missing, the state of another user, no access token or no refresh token.
CallbackInputs ==
    {[state |-> "u1", hasCode |-> TRUE, hasAccess |-> TRUE, hasRefresh |-> TRUE,
      lifetime |-> l] : l \in GrantLifetimes \cup {0}}
    \cup {[state |-> "u1", hasCode |-> FALSE, hasAccess |-> TRUE,
           hasRefresh |-> TRUE, lifetime |-> 0],
          [state |-> "none", hasCode |-> TRUE, hasAccess |-> TRUE,
           hasRefresh |-> TRUE, lifetime |-> 0],
          [state |-> "u2", hasCode |-> TRUE, hasAccess |-> TRUE,
           hasRefresh |-> TRUE, lifetime |-> 0],
          [state |-> "u1", hasCode |-> TRUE, hasAccess |-> FALSE,
           hasRefresh |-> TRUE, lifetime |-> 0],
          [state |-> "u1", hasCode |-> TRUE, hasAccess |-> TRUE,
           hasRefresh |-> FALSE, lifetime |-> 0]}

Init == CredInit /\ VoiceInit /\ RouteInit /\ UtilInit

\* One user's requests, with OAuth callbacks whose state parameter may name
\* another user or be missing.
Next ==
    \/ Tick
    \/ \E r \in Reqs, route \in Routes : StartRequest(r, "u1", route)
    \/ \E r \in Reqs : CheckExpiry(r)
    \/ \E r \in Reqs, a \in BOOLEAN, f \in BOOLEAN, l \in GrantLifetimes \cup {0} :
           RefreshSucceeds(r, a, f, l)
    \/ \E r \in Reqs, e \in RefreshErrors : RefreshFails(r, e)
    \/ \E r \in Reqs : UpsertReturns(r)
    \/ \E r \in Reqs, e \in StoreErrors : UpsertFails(r, e)
    \/ \E r \in Reqs : DeleteReturns(r)
    \/ \E r \in Reqs, e \in StoreErrors : DeleteFails(r, e)
    \/ \E i \in CallbackInputs :
           OAuthCallback("u1", i.state, i.hasCode, i.hasAccess, i.hasRefresh,
                         i.lifetime)

Spec == Init /\ [][Next]_vars

\* One route for each of the two forms of getCalendarClient.
HelperRoutes == {"list", "update"}

\* Requests of two users.
NextUsers ==
    \/ Tick
    \/ \E r \in Reqs, u \in Users, route \in HelperRoutes :
           StartRequest(r, u, route)
    \/ \E r \in Reqs : CheckExpiry(r)
    \/ \E r \in Reqs, a \in BOOLEAN, f \in BOOLEAN, l \in GrantLifetimes \cup {0} :
           RefreshSucceeds(r, a, f, l)
    \/ \E r \in Reqs, e \in RefreshErrors : RefreshFails(r, e)
    \/ \E r \in Reqs : UpsertReturns(r)
    \/ \E r \in Reqs, e \in StoreErrors : UpsertFails(r, e)
    \/ \E r \in Reqs : DeleteReturns(r)
    \/ \E r \in Reqs, e \in StoreErrors : DeleteFails(r, e)
    \/ \E u \in Users, l \in GrantLifetimes \cup {0} :
           OAuthCallback(u, u, TRUE, TRUE, TRUE, l)

SpecUsers == Init /\ [][NextUsers]_vars

\* Requests (to the update route, which refreshes, stores and evicts),
\* exchanges and disconnects of two users.
NextStore ==
    \/ Tick
    \/ \E r \in Reqs, u \in Users : StartRequest(r, u, "update")
    \/ \E r \in Reqs : CheckExpiry(r)
    \/ \E r \in Reqs, a \in BOOLEAN, f \in BOOLEAN, l \in GrantLifetimes \cup {0} :
           RefreshSucceeds(r, a, f, l)
    \/ \E r \in Reqs, e \in RefreshErrors : RefreshFails(r, e)
    \/ \E r \in Reqs : UpsertReturns(r)
    \/ \E r \in Reqs, e \in StoreErrors : UpsertFails(r, e)
    \/ \E r \in Reqs : DeleteReturns(r)
    \/ \E r \in Reqs, e \in StoreErrors : DeleteFails(r, e)
    \/ \E u \in Users, l \in GrantLifetimes \cup {0} :
           OAuthCallback(u, u, TRUE, TRUE, TRUE, l)
    \/ \E u \in Users : DisconnectCalendar(u)

SpecStore == Init /\ [][NextStore]_vars

\* One request of one user, from the token helper to the handler's answer.
NextRoutes ==
    \/ Tick
    \/ \E route \in Routes : StartRequest("r1", "u1", route)
    \/ CheckExpiry("r1")
    \/ \E a \in BOOLEAN, f \in BOOLEAN, l \in GrantLifetimes \cup {0} :
           RefreshSucceeds("r1", a, f, l)
    \/ \E e \in RefreshErrors : RefreshFails("r1", e)
    \/ UpsertReturns("r1")
    \/ \E e \in StoreErrors : UpsertFails("r1", e)
    \/ DeleteReturns("r1")
    \/ \E e \in StoreErrors : DeleteFails("r1", e)
    \/ \E l \in GrantLifetimes \cup {0} :
           OAuthCallback("u1", "u1", TRUE, TRUE, TRUE, l)
    \/ HelperReturns("r1")
    \/ \E code \in {200} \cup CallErrors : CalendarCallReturns("r1", code)
    \/ \E ok \in BOOLEAN : HandleInvalidTokenReturns("r1", ok)
    \/ \E ok \in BOOLEAN : LogActionReturns("r1", ok)

SpecRoutes == Init /\ [][NextRoutes]_vars

\* The voice console.
NextVoice ==
    \/ ConnectStart
    \/ \E k \in SessionIds, ok \in BOOLEAN : MicCheckReturns(k, ok)
    \/ \E k \in SessionIds, ok \in BOOLEAN : TokenReturns(k, ok)
    \/ \E k \in SessionIds, ok \in BOOLEAN, agentOk \in BOOLEAN :
           CreateSessionReturns(k, ok, agentOk)
    \/ \E k \in SessionIds : OnConnected(k)
    \/ \E k \in SessionIds, m \in SessionErrors : OnError(k, m)
    \/ \E k \in SessionIds, n \in 1..MaxToolCalls :
           OnHistoryUpdated(k, n, FALSE)
    \/ \E k \in SessionIds : ConnectResolves(k)
    \/ \E k \in SessionIds : ConnectRejects(k)
    \/ StopButton
    \/ \E k \in SessionIds, ok \in BOOLEAN : CloseReturns(k, ok)
    \/ GraceTimerFires
    \/ EndToolStart
    \/ \E ok \in BOOLEAN : EndToolStopReturns(ok)
    \/ BridgeTimerFires
    \/ \E ok \in BOOLEAN : Unmount(ok)

SpecVoice == Init /\ [][NextVoice]_vars

\* The session records under reordering: a console that starts, runs and
\* stops sessions while its count updates are on their way to the store.
NextCounts ==
    \/ ConnectStart
    \/ \E k \in SessionIds, ok \in BOOLEAN : MicCheckReturns(k, ok)
    \/ \E k \in SessionIds, ok \in BOOLEAN : TokenReturns(k, ok)
    \/ \E k \in SessionIds, ok \in BOOLEAN, agentOk \in BOOLEAN :
           CreateSessionReturns(k, ok, agentOk)
    \/ \E k \in SessionIds, n \in 1..MaxCount : OnHistoryUpdated(k, n, TRUE)
    \/ \E k \in SessionIds, n \in 1..MaxCount :
           UpdateArrives([sessionId |-> k, toolCallsCount |-> n])
    \/ \E k \in SessionIds : ConnectResolves(k)
    \/ \E k \in SessionIds : ConnectRejects(k)
    \/ StopButton
    \/ \E k \in SessionIds, ok \in BOOLEAN : CloseReturns(k, ok)
    \/ GraceTimerFires

SpecCounts == Init /\ [][NextCounts]_vars

\* The console with the stop button only, where the close call and the update
\* of the session record may fail.
NextTeardown ==
    \/ ConnectStart
    \/ \E k \in SessionIds, ok \in BOOLEAN : MicCheckReturns(k, ok)
    \/ \E k \in SessionIds, ok \in BOOLEAN : TokenReturns(k, ok)
    \/ \E k \in SessionIds, ok \in BOOLEAN, agentOk \in BOOLEAN :
           CreateSessionReturns(k, ok, agentOk)
    \/ \E k \in SessionIds : OnConnected(k)
    \/ \E k \in SessionIds, m \in SessionErrors : OnError(k, m)
    \/ \E k \in SessionIds, n \in 1..MaxToolCalls :
           OnHistoryUpdated(k, n, FALSE)
    \/ \E k \in SessionIds : ConnectResolves(k)
    \/ \E k \in SessionIds : ConnectRejects(k)
    \/ StopButton
    \/ \E k \in SessionIds, ok \in BOOLEAN, updateOk \in BOOLEAN :
           CloseReturnsWith(k, ok, updateOk)
    \/ GraceTimerFires

SpecTeardown == Init /\ [][NextTeardown]_vars

\* The console with the agent's end tool, under the scheduling the runtime
\* gives: a timer that is armed fires, and an awaited call settles. The close
\* call of a connection succeeds here.
NextEndTool ==
    \/ ConnectStart
    \/ \E k \in SessionIds, ok \in BOOLEAN : MicCheckReturns(k, ok)
    \/ \E k \in SessionIds, ok \in BOOLEAN : TokenReturns(k, ok)
    \/ \E k \in SessionIds, ok \in BOOLEAN, agentOk \in BOOLEAN :
           CreateSessionReturns(k, ok, agentOk)
    \/ \E k \in SessionIds : OnConnected(k)
    \/ \E k \in SessionIds, m \in SessionErrors : OnError(k, m)
    \/ \E k \in SessionIds : ConnectResolves(k)
    \/ \E k \in SessionIds : ConnectRejects(k)
    \/ StopButton
    \/ \E k \in SessionIds : CloseReturns(k, TRUE)
    \/ GraceTimerFires
    \/ EndToolStart
    \/ \E ok \in BOOLEAN : EndToolStopReturns(ok)
    \/ BridgeTimerFires
    \/ \E ok \in BOOLEAN : Unmount(ok)

FairEndTool ==
    /\ WF_vars(BridgeTimerFires)
    /\ WF_vars(GraceTimerFires)
    /\ WF_vars(\E ok \in BOOLEAN : EndToolStopReturns(ok))
    /\ \A k \in SessionIds :
          /\ WF_vars(CloseReturns(k, TRUE))
          /\ WF_vars(ConnectResolves(k) \/ ConnectRejects(k))

SpecEndTool == Init /\ [][NextEndTool]_vars /\ FairEndTool

\* ================================================================ claims
IsDone(r) == req[r].pc = "done"

Finishes(r) == req[r].pc # "done" /\ req'[r].pc = "done"

\* C1: for every user, at no moment is more than one refreshAccessToken call
\* in flight.
C1_AtMostOneRefreshInFlight ==
    \A u \in Users :
        Cardinality({r \in Reqs : req[r].userId = u /\ req[r].pc = "refreshing"}) <= 1

\* C2: requests of one user that found the token stale concurrently issue
\* exactly one refresh call between them and end with the same result.
C2_OneRefreshSameResult ==
    \A r1 \in Reqs, r2 \in Reqs :
        (r1 # r2 /\ req[r1].userId = req[r2].userId
            /\ req[r1].raced /\ req[r2].raced)
        => /\ req[r1].refreshCalls + req[r2].refreshCalls = 1
           /\ (IsDone(r1) /\ IsDone(r2)) => req[r1].result = req[r2].result

\* C3: when disconnect() was called while a connect() call was in progress
\* with status connecting, and session.connect of that call then resolved with
\* no error event, then once that connect() call and every disconnect() call
\* have returned (and no later connect() has started) the status is idle and
\* the connection of that connect() call is not open.
C3_DisconnectDuringConnectEndsIdle ==
    \A k \in SessionIds :
        (/\ calls.interrupted[k]
         /\ calls.connectPc[k] = "done"
         /\ conn[k] # "none" /\ ~calls.connectionErrorOccurred[k]
         /\ calls.nextSession = k + 1
         /\ \A j \in SessionIds : calls.closing[j] = 0)
        => /\ vc.status = "idle"
           /\ conn[k] # "open"

\* C4: a token request whose refresh returned no access token or failed with
\* invalid_grant ends with TOKEN_INVALID, and the store holds no record for the
\* user when it ends.
C4_InvalidGrantEvicts ==
    [][\A r \in Reqs :
          (Finishes(r)
              /\ req'[r].refreshOutcome \in {"no_access_token", "invalid_grant"})
          => /\ req'[r].result.kind = "TOKEN_INVALID"
             /\ ~tokenStore'[req'[r].userId].present]_vars

\* C5 as stated: a request made after the user's record was evicted, before
\* any new exchange, reports TOKEN_INVALID.
C5_LaterRequestsReauth ==
    \A r \in Reqs :
        (IsDone(r) /\ req[r].afterEviction) => req[r].result.kind = "TOKEN_INVALID"

\* C5 amended: a request made after the user's record was evicted that finds
\* the record still absent ends with "Google Calendar not connected", makes no
\* refresh call and deletes nothing.
C5_LaterRequestsNotConnected ==
    \A r \in Reqs :
        (IsDone(r) /\ req[r].afterEviction /\ ~req[r].foundRecord)
        => /\ req[r].result.kind = "NotConnected"
           /\ req[r].refreshCalls = 0
           /\ ~req[r].deleted

C5_Witness ==
    \E r \in Reqs :
        /\ IsDone(r) /\ req[r].afterEviction /\ ~req[r].foundRecord
        /\ evicted[req[r].userId]

\* C6: a refresh failure other than an invalid grant reaches the caller
\* unchanged and the request does not delete the record.
C6_OtherFailurePropagates ==
    \A r \in Reqs :
        (IsDone(r) /\ req[r].refreshOutcome \in RefreshErrors \ {"invalid_grant"})
        => /\ req[r].result = Failure("Error", req[r].refreshOutcome)
           /\ ~req[r].deleted

\* C7: when the refresh succeeded and the upsert was rejected, the request
\* neither reports TOKEN_INVALID nor deletes the record.
C7_StoreFailureNotReauth ==
    \A r \in Reqs :
        (IsDone(r) /\ req[r].refreshOutcome = "ok" /\ req[r].upsertFailed)
        => /\ req[r].result.kind # "TOKEN_INVALID"
           /\ ~req[r].deleted

\* C8: a refresh that returned an access token ends, unless the store write
\* is rejected, with the refreshed credential, and the record then holds the
\* new access token, the new expiry and the new refresh token or, when the
\* response carried none, the previous one.
C8_RefreshPersists ==
    [][\A r \in Reqs :
          (Finishes(r) /\ req'[r].refreshOutcome = "ok" /\ ~req'[r].upsertFailed)
          => /\ req[r].pc = "upserting"
             /\ req'[r].result.kind = "Ok"
             /\ req'[r].result.accessToken = req[r].credentials.access_token
             /\ tokenStore'[req[r].userId].present
             /\ tokenStore'[req[r].userId].accessToken
                    = req[r].credentials.access_token
             /\ tokenStore'[req[r].userId].refreshToken
                    = (IF req[r].credentials.refresh_token # 0
                       THEN req[r].credentials.refresh_token
                       ELSE req[r].tokens.refreshToken)
             /\ req'[r].result.refreshToken
                    = tokenStore'[req[r].userId].refreshToken
             /\ tokenStore'[req[r].userId].expiryTimestamp
                    = (IF req[r].credentials.expiry_date # 0
                       THEN req[r].credentials.expiry_date
                       ELSE CHOOSE e \in {t + DefaultLifetime : t \in 0..now} :
                                e = tokenStore'[req[r].userId].expiryTimestamp
                                \/ e = now + DefaultLifetime)]_vars

\* C9: the step after the query issues a refresh call exactly when the stored
\* expiry is less than five minutes ahead; on a fresher token it returns the
\* stored credential without touching the store; no other step issues a
\* refresh call.
C9_RefreshIffStale ==
    [][\A r \in Reqs :
          /\ req'[r].refreshCalls # req[r].refreshCalls
                => req[r].pc = "queried" /\ req[r].tokens.present
          /\ (req[r].pc = "queried" /\ req'[r].pc # "queried"
                 /\ req[r].tokens.present)
             => IF req[r].tokens.expiryTimestamp < now + RefreshWindow
                THEN /\ req'[r].pc = "refreshing"
                     /\ req'[r].refreshCalls = 1
                ELSE /\ req'[r].pc = "done"
                     /\ req'[r].result = Ok(req[r].tokens.accessToken,
                                            req[r].tokens.refreshToken)
                     /\ req'[r].refreshCalls = 0
                     /\ tokenStore' = tokenStore]_vars

C9_Witness ==
    \E r1 \in Reqs, r2 \in Reqs :
        /\ IsDone(r1) /\ req[r1].result.kind = "Ok" /\ req[r1].refreshCalls = 0
        /\ req[r2].pc = "refreshing" /\ req[r2].refreshCalls = 1
        /\ req[r2].tokens.expiryTimestamp = now + RefreshWindow - 1

\* C10: while a request of one user is refreshing or writing the store, every
\* step of a request of another user stays enabled.
C10_NoCrossUserBlocking ==
    \A r1 \in Reqs, r2 \in Reqs :
        (r1 # r2 /\ HandlingStale(r2))
        => /\ req[r1].pc = "idle"
                => \A u \in Users \ {req[r2].userId} :
                       ENABLED StartRequest(r1, u, "update")
           /\ (req[r1].pc = "queried" /\ req[r1].userId # req[r2].userId)
                => ENABLED CheckExpiry(r1)

C10_Witness ==
    \E r1 \in Reqs, r2 \in Reqs :
        /\ req[r1].userId # req[r2].userId
        /\ req[r2].pc = "refreshing"
        /\ IsDone(r1) /\ req[r1].result.kind = "Ok" /\ req[r1].refreshCalls = 0

\* C11: the googleOAuthTokens table never holds more than one row of a
\* clerkUserId, and the user's record is present exactly when it holds one.
C11_OneRecordPerUser ==
    \A u \in Users :
        /\ tokenRows[u] <= 1
        /\ tokenStore[u].present <=> tokenRows[u] = 1

\* A record written by an exchange was patched by a refresh whose response
\* carried no refresh token, while the other user's record was deleted.
C11_Witness ==
    /\ tokenRows["u1"] = 1
    /\ tokenStore["u1"].accessToken # tokenStore["u1"].refreshToken
    /\ tokenRows["u2"] = 0

\* The handler of request r has answered.
Answered(r) == resp[r].pc = "sent"

\* The credential of request r was found permanently invalid: its refresh
\* returned no access token or failed with invalid_grant, or the calendar
\* provider answered its call with 401 or 403.
InvalidCredentialDetected(r) ==
    \/ req[r].refreshOutcome \in {"no_access_token", "invalid_grant"}
    \/ resp[r].callCode \in {401, 403}

\* C12: a request that found the credential permanently invalid is answered
\* with status 401 and needsReconnect, in every route.
C12_InvalidCredentialReportsReconnect ==
    \A r \in Reqs :
        (Answered(r) /\ InvalidCredentialDetected(r))
        => resp[r].status = 401 /\ resp[r].needsReconnect

\* C13: a request that found the credential permanently invalid has, when it
\* answers, deleted the user's token record.
C13_DetectionEvicts ==
    \A r \in Reqs :
        (Answered(r) /\ InvalidCredentialDetected(r))
        => req[r].deleted \/ resp[r].deleted

\* The status transitions of the state machine idle -> connecting ->
\* {connected | error} -> idle, with connected -> error.
StatedTransitions ==
    {<<"idle", "connecting">>, <<"connecting", "connected">>,
     <<"connecting", "error">>, <<"connected", "error">>,
     <<"connected", "idle">>, <<"error", "idle">>}

\* A disconnect() call runs to its end in this step.
DisconnectCompletes ==
    \E k \in SessionIds : calls'.closing[k] < calls.closing[k]

\* C14: the status changes only along the stated transitions, or from error
\* to connecting when the start button is clicked again, and it becomes idle
\* only in a step that completes disconnect().
C14_StatusTransitions ==
    [][vc'.status # vc.status
          => /\ <<vc.status, vc'.status>>
                    \in StatedTransitions \cup {<<"error", "connecting">>}
             /\ vc'.status = "idle" => DisconnectCompletes]_vars

\* The 400 ms timer of the end_voice_session tool fires in this step, which
\* calls disconnect() while the console is mounted.
BridgeSignalHandled ==
    vc.mounted /\ calls'.bridgeTimers < calls.bridgeTimers

LaterCompletion(k) ==
    /\ vc.mounted
    /\ conn[k] = "closed"
    /\ calls'.closing[k] < calls.closing[k]

\* C16: disconnect() invocations for one session never have two close calls
\* issued on its connection, and when a later invocation finishes after an
\* earlier one it leaves the controller, the connections, the session records
\* and the storage key as the earlier one left them.
C16_TeardownIdempotent ==
    [][/\ \A k \in SessionIds : calls'.closing[k] <= 1
       /\ \A k \in SessionIds :
             LaterCompletion(k)
                 => /\ vc' = vc
                    /\ conn' = conn
                    /\ voiceSessions' = voiceSessions
                    /\ sessionStorage' = sessionStorage]_vars

\* disconnect() has been entered with the handle of session k: its close call
\* is pending, or it has closed a connection that raised no error before (one
\* that session.connect() rejected has raised one).
TeardownBegun(k) ==
    /\ vc.mounted
    /\ \/ calls.closing[k] > 0
       \/ conn[k] = "closed" /\ ~calls.connectionErrorOccurred[k]

\* C17: an error event raised by a connection whose teardown has begun,
\* whatever its text and whether or not the 1000 ms timer has fired, leaves
\* the status and the error message as they are.
C17_ErrorAfterTeardownSuppressed ==
    [][\A k \in SessionIds, msg \in SessionErrors :
          (TeardownBegun(k) /\ OnError(k, msg))
              => /\ vc'.status = vc.status
                 /\ vc'.error = vc.error]_vars

\* Session k is the one the controller is starting or running and no
\* disconnect() has been entered since it was created: none is awaiting a
\* close, and none has finished (which clears sessionIdRef).
NoTeardownBegun(k) ==
    /\ vc.mounted
    /\ vc.status \in {"connecting", "connected"}
    /\ vc.sessionIdRef = k
    /\ \A j \in SessionIds : calls.closing[j] = 0

C19_CountNeverDecreases ==
    [][\A id \in SessionIds :
          (voiceSessions[id].present /\ voiceSessions'[id].present)
              => voiceSessions'[id].toolCallsCount
                     >= voiceSessions[id].toolCallsCount]_vars

\* C20: no session record has its endedAt written more than once, whichever
\* of the stop button, the end tool with its bridge signal, the
\* connect-failure cleanup and the unmount end the session.
C20_EndedOnce ==
    \A id \in SessionIds : voiceSessions[id].endedWrites <= 1

\* playReadyChime() is called in this step: both call sites set
\* chimePlayedRef from false to true together with the call, and nothing else
\* sets it to true.
ChimePlays == ~vc.chimePlayedRef /\ vc'.chimePlayedRef

\* Readiness of session k is observed in this step, by its connected event or
\* by the resolution of its session.connect().
ReadinessObserved(k) == OnConnected(k) \/ ConnectResolves(k)

\* Session k is the one the controller is starting or running: no other
\* connect() is under way and no other session has a connection that can
\* still raise events.
OnlySession(k) ==
    /\ vc.mounted
    /\ vc.sessionIdRef = k
    /\ \A j \in SessionIds \ {k} :
          ~ConnectInProgress(j) /\ conn[j] \in {"none", "closed"}

EndSignalPending(k) ==
    /\ calls.bridgeTimers > 0
    /\ voiceSessions[k].endedWrites > 0
    /\ OnlySession(k)
    /\ vc.sessionRef = k
    /\ \A j \in SessionIds \ {k} : calls.closing[j] = 0

\* Teardown has run for session k: the status is idle, the handle is released,
\* the connection is closed and the record has its endedAt.
TornDown(k) ==
    /\ vc.status = "idle"
    /\ vc.sessionRef = 0
    /\ conn[k] = "closed"
    /\ voiceSessions[k].endedWrites > 0

C24_LogFailureStillSuccess ==
    \A r \in Reqs :
        (Answered(r) /\ resp[r].callCode = 200) => resp[r].status = 200

\* The error utilities applied to the value a catch clause receives.
NextErrors ==
    \/ \E e \in ErrValues, source \in Sources : Catch(e, source)
    \/ NormalizeReturns
    \/ ClassifyReturns

SpecErrors == Init /\ [][NextErrors]_vars

\* C25: classifyErrorType returns one of the four classes, by first match in
\* the order credential, microphone, network, unknown: a credential term or
\* the getEphemeralToken source gives api_key whatever else the message
\* holds, a microphone term wins over a network term, and a message with no
\* term is unknown.
C25_ClassifiedByFirstMatch ==
    errs.pc = "classified" =>
        LET lowerMessage == toLowerCase(errs.errorMessage)
            credential ==
                \/ \E t \in ApiKeyTerms : includes(lowerMessage, t)
                \/ errs.source = "getEphemeralToken"
            microphone == \E t \in MicrophoneTerms : includes(lowerMessage, t)
            network == \E t \in NetworkTerms : includes(lowerMessage, t)
        IN  /\ errs.errorType \in {"api_key", "microphone", "network", "unknown"}
            /\ credential => errs.errorType = "api_key"
            /\ (~credential /\ microphone) => errs.errorType = "microphone"
            /\ (~credential /\ ~microphone /\ network)
                    => errs.errorType = "network"
            /\ (~credential /\ ~microphone /\ ~network)
                    => errs.errorType = "unknown"

\* A message with a capitalised microphone term and a network term has been
\* classified as microphone.
C25_Witness ==
    /\ errs.pc = "classified"
    /\ errs.source = "none"
    /\ errs.errorMessage = <<"Microphone", "network">>
    /\ errs.errorType = "microphone"

\* C26: normalizeErrorMessage returns "Unknown error" only for an absent
\* input (null or undefined), and a string input, the empty string included,
\* is returned as it is.
C26_UnknownErrorOnlyWhenAbsent ==
    errs.pc = "normalized" =>
        /\ errs.errorMessage = <<"Unknown", "error">>
                => errs.err.t \in {"undefined", "null"}
        /\ errs.err.t = "string" => errs.errorMessage = errs.err.text

\* A startup step of connect() call k fails: the microphone check, the
\* request of the ephemeral credential or the creation of the session record.
StartupStepFails(k) ==
    \/ MicCheckReturns(k, FALSE)
    \/ TokenReturns(k, FALSE)
    \/ \E agentOk \in BOOLEAN : CreateSessionReturns(k, FALSE, agentOk)

\* connect() call k has returned without a session record and without a
\* connection.
EndedBeforeSession(k) ==
    /\ calls.connectPc[k] = "done"
    /\ ~voiceSessions[k].present
    /\ conn[k] = "none"

\* C27: a failing startup step sets status error with the message and its
\* class and ends the call with no session record and no connection, and
\* such a call makes no later step: it stays ended, its record is never
\* created and its connection is never opened.
C27_FailedStepStopsStartup ==
    [][\A k \in SessionIds :
          /\ StartupStepFails(k)
                => /\ vc'.status = "error"
                   /\ vc'.error \in {"microphone", "token", "session"}
                   /\ vc'.errorType = ConnectErrorType(vc'.error)
                   /\ EndedBeforeSession(k)'
          /\ EndedBeforeSession(k) => EndedBeforeSession(k)']_vars

\* A startup step of the first call has failed and the second call has
\* gone on to open its connection.
C27_Witness ==
    /\ EndedBeforeSession(1)
    /\ sessionStorage = 2
    /\ voiceSessions[2].present
    /\ conn[2] = "open"
    /\ vc.status = "connected"

\* C28: the connected event and the resolution of session.connect() change
\* the status only from connecting to connected; an error status and an idle
\* status are left as they are.
C28_ReadyOnlyFromConnecting ==
    [][\A k \in SessionIds :
          ReadinessObserved(k)
              => \/ vc'.status = vc.status
                 \/ vc.status = "connecting" /\ vc'.status = "connected"]_vars

\* The connected event has been handled while the status was error: the
\* listener cleared the message and marked the chime, the status is still
\* error.
C28_Witness ==
    /\ vc.status = "error"
    /\ vc.error = "none"
    /\ vc.chimePlayedRef

\* A disconnect() is between raising the flag and the expiry of its 1000 ms
\* timer: its close call is awaited, or its tail has run and its timer is
\* pending.
InTeardownWindow ==
    \/ \E k \in SessionIds : calls.closing[k] > 0
    \/ calls.graceTimers > 0

\* C29: from the point where disconnect() raises isDisconnectingRef, before
\* its close call, to the expiry of its grace timer after the status was
\* reset to idle, the flag is never false.
C29_FlagHeldThroughTeardown == InTeardownWindow => vc.isDisconnectingRef

\* C30: when a disconnect() for the session that sessionIdRef names
\* completes, sessionRef, sessionIdRef and the sessionStorage slot are
\* cleared, the status is idle, the error message and type are cleared, the
\* counter is 0, and the session record has got one more endedAt write,
\* carrying the counter's value from before the reset (when the write is not
\* rejected).
C30_DisconnectClearsAll ==
    [][\A k \in SessionIds, ok \in BOOLEAN, updateOk \in BOOLEAN :
          (vc.sessionIdRef = k /\ CloseReturnsWith(k, ok, updateOk))
              => /\ vc'.sessionRef = 0
                 /\ vc'.sessionIdRef = 0
                 /\ sessionStorage' = 0
                 /\ vc'.status = "idle"
                 /\ vc'.error = "none"
                 /\ vc'.errorType = "none"
                 /\ vc'.toolCallsCountRef = 0
                 /\ updateOk
                      => /\ voiceSessions'[k].endedWrites
                                = voiceSessions[k].endedWrites + 1
                         /\ voiceSessions'[k].toolCallsCount
                                = vc.toolCallsCountRef]_vars

\* The disconnect() of session 1 has completed after one tool call: all is
\* cleared and the record is ended with a count of 1.
C30_Witness ==
    /\ vc.status = "idle"
    /\ vc.sessionRef = 0
    /\ vc.sessionIdRef = 0
    /\ vc.toolCallsCountRef = 0
    /\ vc.error = "none"
    /\ sessionStorage = 0
    /\ conn[1] = "closed"
    /\ calls.closing[1] = 0
    /\ calls.nextSession = 2
    /\ voiceSessions[1].endedWrites = 1
    /\ voiceSessions[1].toolCallsCount = MaxToolCalls

\* C31: a disconnect() invoked while the status is error leaves the status
\* idle: with a session handle it starts the teardown that ends in idle, and
\* with no handle stored, after a failed startup, it sets idle as it returns.
C31_DisconnectFromErrorGoesIdle ==
    [][(vc.status = "error" /\ BridgeSignalHandled)
          => IF vc.sessionRef = 0
             THEN vc'.status = "idle"
             ELSE calls'.closing[vc.sessionRef]
                      > calls.closing[vc.sessionRef]]_vars

\* C32: once the console is unmounted no connection is open or being
\* opened, every session record it created is ended and the sessionStorage
\* slot is empty.
C32_UnmountTearsDown ==
    ~vc.mounted
        => /\ sessionStorage = 0
           /\ \A k \in SessionIds :
                 /\ conn[k] \notin {"connecting", "open"}
                 /\ voiceSessions[k].present
                        => voiceSessions[k].endedWrites > 0

\* The end_voice_session tool arms its 400 ms timer in this step.
SignalArmed == calls'.bridgeTimers > calls.bridgeTimers

\* C33: the tool arms the signal only as its stop request for the id it read
\* from sessionStorage returns with that record marked ended, and the step
\* that returns the tool result touches neither the console nor a
\* connection: the signal comes with a later step. A run that finds no id,
\* or whose stop request fails, arms nothing and leaves the console and the
\* connections as they are.
C33_SignalOnlyAfterStop ==
    [][/\ SignalArmed
            => /\ calls.endTool # 0
               /\ voiceSessions'[calls.endTool].endedWrites
                      = voiceSessions[calls.endTool].endedWrites + 1
               /\ UNCHANGED <<vc, conn, sessionStorage>>
       /\ (EndToolStart \/ \E ok \in BOOLEAN : EndToolStopReturns(ok))
            => /\ UNCHANGED <<vc, conn, sessionStorage>>
               /\ (~SignalArmed => UNCHANGED voiceSessions)
       /\ (EndToolStart /\ sessionStorage = 0) => ~SignalArmed
       /\ BridgeSignalHandled => calls.bridgeTimers > 0]_vars

\* The tool has returned its result for session 1 with the record marked
\* ended and the signal still pending: the session is still connected.
C33_Witness ==
    /\ calls.bridgeTimers = 1
    /\ calls.toolRuns = 1
    /\ calls.endTool = 0
    /\ voiceSessions[1].endedWrites = 1
    /\ vc.status = "connected"
    /\ vc.sessionRef = 1
    /\ conn[1] = "open"
    /\ sessionStorage = 1

\* The controller has no live session: no connect() is in progress, no
\* connection is open or being opened, and the status is idle or error or the
\* console is unmounted.
NoLiveSession ==
    /\ \A k \in SessionIds :
          ~ConnectInProgress(k) /\ conn[k] \notin {"connecting", "open"}
    /\ vc.status \in {"idle", "error"} \/ ~vc.mounted

\* C34: whenever the controller has no live session the sessionStorage slot
\* is empty.
C34_SlotOnlyWhileActive == NoLiveSession => sessionStorage = 0

\* C35: whenever the status is connected sessionRef holds the session, and
\* a click on the stop button awaits a close call for it.
C35_ConnectedHoldsHandle ==
    [][/\ (vc.mounted /\ vc.status = "connected") => vc.sessionRef # 0
       /\ StopButton
            => /\ vc.sessionRef # 0
               /\ calls'.closing[vc.sessionRef]
                      > calls.closing[vc.sessionRef]]_vars

\* C36: at most one connection of the controller is open, and an open
\* connection is the one sessionRef holds.
C36_OneConnection ==
    /\ Cardinality({k \in SessionIds : conn[k] = "open"}) <= 1
    /\ \A k \in SessionIds :
          (vc.mounted /\ conn[k] = "open") => vc.sessionRef = k

\* C37: while the disconnect() of a session started after an earlier
\* session was torn down awaits its close call, isDisconnectingRef is set.
C37_EarlierTimerKeepsLaterFlag ==
    \A j \in SessionIds, k \in SessionIds :
        (j < k /\ conn[j] = "closed" /\ calls.closing[j] = 0
               /\ calls.closing[k] = 1)
            => vc.isDisconnectingRef

\* C38: whenever the status is error or idle with no connect() or
\* disconnect() in progress and no connection open, every session record
\* that was created is ended.
C38_RecordsEndedWhenOver ==
    (/\ vc.status \in {"error", "idle"}
     /\ \A k \in SessionIds :
           /\ ~ConnectInProgress(k)
           /\ calls.closing[k] = 0
           /\ conn[k] \notin {"connecting", "open"})
        => \A k \in SessionIds :
              voiceSessions[k].present => voiceSessions[k].endedWrites > 0

\* Who auth() reports and what the state parameter holds at the callback:
\* a user, or "none" for no signed-in user and for a missing parameter.
CallbackUsers == Users \cup {"none"}

\* Requests to the update route and disconnects of two users, with OAuth
\* callbacks of the two users and of a caller who is not signed in, in every
\* combination of code, state and returned tokens.
NextCallback ==
    \/ Tick
    \/ \E r \in Reqs, u \in Users : StartRequest(r, u, "update")
    \/ \E r \in Reqs : CheckExpiry(r)
    \/ \E r \in Reqs, a \in BOOLEAN, f \in BOOLEAN, l \in GrantLifetimes \cup {0} :
           RefreshSucceeds(r, a, f, l)
    \/ \E r \in Reqs, e \in RefreshErrors : RefreshFails(r, e)
    \/ \E r \in Reqs : UpsertReturns(r)
    \/ \E r \in Reqs, e \in StoreErrors : UpsertFails(r, e)
    \/ \E r \in Reqs : DeleteReturns(r)
    \/ \E r \in Reqs, e \in StoreErrors : DeleteFails(r, e)
    \/ \E u \in CallbackUsers, st \in CallbackUsers, c \in BOOLEAN,
          a \in BOOLEAN, f \in BOOLEAN, l \in GrantLifetimes \cup {0} :
           OAuthCallback(u, st, c, a, f, l)
    \/ \E u \in Users : DisconnectCalendar(u)

SpecCallback == Init /\ [][NextCallback]_vars

\* C39: a callback writes the token record of the signed-in user, and no
\* other, when a code is present, the state equals that user's id and both
\* tokens were returned; every other callback leaves the token store as it
\* is: a callback step that changes the token store is one of the first
\* kind and changes the record of that user only.
C39_CallbackWritesOnlyMatched ==
    [][tokenStore' # tokenStore =>
          \A u \in CallbackUsers, st \in CallbackUsers, c \in BOOLEAN,
             a \in BOOLEAN, f \in BOOLEAN, l \in GrantLifetimes \cup {0} :
             OAuthCallback(u, st, c, a, f, l)
                 => /\ u \in Users /\ st = u /\ c /\ a /\ f
                    /\ tokenStore'[u].present
                    /\ tokenStore'[u].accessToken = nextTok
                    /\ \A v \in Users \ {u} : tokenStore'[v] = tokenStore[v]]_vars

\* Both users have completed an exchange: the later write for u2 left the
\* record of u1 as the earlier one made it.
C39_Witness ==
    /\ tokenStore["u1"].present /\ tokenStore["u1"].accessToken = 1
    /\ tokenStore["u2"].present /\ tokenStore["u2"].accessToken = 2

====
